---- MODULE Spec2Model ----
(***************************************************************************)
(* Model of main.py of line-bot-chouseiman: the conversation history kept  *)
(* in the module-level dict conversation_history, its JSON file, and the   *)
(* webhook handler handle_message that appends, evicts, saves and replies. *)
(*                                                                         *)
(* Time is an integer clock (one unit = one day of datetime.now()).  The   *)
(* numeric limits of the source (180 days, 5000 records, 600 prompt        *)
(* records, 3500 characters) are scaled down so that every limit is        *)
(* crossed inside the explored state space.  A message text is a sequence  *)
(* of symbols; the mention token is one symbol.                            *)
(*                                                                         *)
(* Spec is one handler at a time, with process crashes; SpecStore is       *)
(* clean_old_history, the window slice and the prompt rendering on any     *)
(* log; SpecThreads is two handlers running at the same time.              *)
(***************************************************************************)
EXTENDS Integers, Sequences, FiniteSets, TLC

\* ---------------------------------------------------------------- bounds
MaxTime == 2
MaxEvents == 2
MaxLog == 4
MaxLimit == 4

\* ------------------------------------------------- constants of the source
MAX_HISTORY_DAYS == 1
MAX_HISTORY_PER_GROUP == 3
MAX_PROMPT_MESSAGES == 2
MAX_REPLY_LENGTH == 3

MENTION == "@chouseiman"       \* the mention token of line 143
BOT_NAME == "chouseiman"       \* the author of a reply record, line 278
UNKNOWN_USER == "unknown"    \* the author when the profile lookup fails, line 118

Groups == {"g1", "g2"}
\* the sources of inbound events: the conversation id of line 115 and the
\* author of lines 118-128 (g2's profile lookup fails)
Sources == {[group_id |-> "g1", user_name |-> "alice"],
            [group_id |-> "g2", user_name |-> UNKNOWN_USER]}
\* " " is a whitespace symbol
Texts == {<<"hi">>, <<MENTION, " ", "plan", " ", MENTION>>}

VARIABLES
    conversation_history,  \* the in-memory dict: group id -> list of records
    file,                  \* contents of HISTORY_FILE
    tmp_file,              \* contents of HISTORY_FILE + ".tmp"
    clock,                 \* what datetime.now() returns
    pc,                    \* position of the handler
    ev,                    \* the event being handled and the handler's locals
    call,                  \* the last store operation: arguments and result
    committed,             \* the state of the last completed load or save
    nevents,               \* number of events received so far
    boot_empty,            \* whether the store was empty when the process first started
    threads,               \* SpecThreads: each worker thread's position and locals
    journal                \* SpecThreads: every record appended, per conversation

vars == <<conversation_history, file, tmp_file, clock, pc, ev, call, committed, nevents, boot_empty, threads, journal>>

\* ------------------------------------------------------------ time stamps
\* datetime.isoformat(): the string stored in a record for the instant t
Isoformat(t) == [k |-> "iso", t |-> t]
\* a tz-aware ISO string: parses, but cannot be compared with a naive cutoff
AwareTs(t) == [k |-> "aware", t |-> t]
\* a string datetime.fromisoformat rejects
BadTs == [k |-> "bad", t |-> 0]
\* the key is missing, null or empty
NoTs == [k |-> "none", t |-> 0]

\* dt = datetime.fromisoformat(ts) if ts else None, with except -> None
ParsedKind(ts) ==
    IF ts.k = "iso" THEN "naive"
    ELSE IF ts.k = "aware" THEN "aware"
    ELSE "None"

\* one element of a conversation list: a dict with the three keys, or a
\* JSON value that is not a dict
Record(ts, u, m) == [ty |-> "dict", timestamp |-> ts, user |-> u, message |-> m]
NotADict == [ty |-> "str", timestamp |-> NoTs, user |-> "", message |-> <<>>]

Min(a, b) == IF a < b THEN a ELSE b

\* s[-n:] of Python, for any integer n
SliceLast(s, n) ==
    LET len == Len(s)
        start == IF n > 0 THEN (IF len - n < 0 THEN 0 ELSE len - n)
                 ELSE Min(0 - n, len)
    IN SubSeq(s, start + 1, len)

\* history.get(group_id, [])
Get(history, group_id) ==
    IF group_id \in DOMAIN history THEN history[group_id] ELSE <<>>

\* KeepMsg with the boundary excluded: dt > cutoff
KeepMsgStrict(msg, cutoff) ==
    \/ ParsedKind(msg.timestamp) = "None"
    \/ msg.timestamp.t > cutoff

\* KeepMsg without the "dt is None" escape: unreadable dates are dropped
KeepMsgParsedOnly(msg, cutoff) ==
    /\ ParsedKind(msg.timestamp) # "None"
    /\ msg.timestamp.t >= cutoff

\* the test of line 79: dt is None or dt >= cutoff
KeepMsg(msg, cutoff) ==
    \/ ParsedKind(msg.timestamp) = "None"
    \/ msg.timestamp.t >= cutoff

\* the loop of clean_old_history raises: msg.get on a value that is not a
\* dict, or the comparison of an aware datetime with the naive cutoff
CleanRaises(msgs) ==
    \E i \in 1..Len(msgs) :
        \/ msgs[i].ty # "dict"
        \/ ParsedKind(msgs[i].timestamp) = "aware"

\* TruncateHistory keeping the wrong end: filtered[:MAX_HISTORY_PER_GROUP]
TruncateKeepOldest(filtered) ==
    IF Len(filtered) > MAX_HISTORY_PER_GROUP
    THEN SubSeq(filtered, 1, MAX_HISTORY_PER_GROUP)
    ELSE filtered

\* TruncateHistory as a drop-one-when-full: >= instead of >, filtered[1:]
TruncateDropOne(filtered) ==
    IF Len(filtered) >= MAX_HISTORY_PER_GROUP
    THEN SubSeq(filtered, 2, Len(filtered))
    ELSE filtered

\* lines 83-84: keep the newest MAX_HISTORY_PER_GROUP
TruncateHistory(filtered) ==
    IF Len(filtered) > MAX_HISTORY_PER_GROUP
    THEN SliceLast(filtered, MAX_HISTORY_PER_GROUP)
    ELSE filtered

\* clean_old_history with the two passes swapped: truncate, then filter by age
CleanSizeFirst(history, group_id, t) ==
    LET msgs == Get(history, group_id)
        cutoff == t - MAX_HISTORY_DAYS
        truncated == TruncateHistory(msgs)
        filtered == SelectSeq(truncated, LAMBDA msg : KeepMsg(msg, cutoff))
    IN  IF msgs = <<>> THEN [raised |-> FALSE, history |-> history]
        ELSE IF CleanRaises(msgs) THEN [raised |-> TRUE, history |-> history]
        ELSE [raised |-> FALSE, history |-> [history EXCEPT ![group_id] = filtered]]

\* clean_old_history looping over every key of the dict, not only group_id
CleanAllGroups(history, group_id, t) ==
    LET cutoff == t - MAX_HISTORY_DAYS
        clean(msgs) == IF CleanRaises(msgs) THEN msgs
                       ELSE TruncateHistory(SelectSeq(msgs, LAMBDA msg : KeepMsg(msg, cutoff)))
    IN  IF Get(history, group_id) = <<>> THEN [raised |-> FALSE, history |-> history]
        ELSE IF CleanRaises(Get(history, group_id)) THEN [raised |-> TRUE, history |-> history]
        ELSE [raised |-> FALSE, history |-> [g \in DOMAIN history |-> clean(history[g])]]

\* clean_old_history(history, group_id) run when datetime.now() = t
CleanOldHistory(history, group_id, t) ==
    LET msgs == Get(history, group_id)
        cutoff == t - MAX_HISTORY_DAYS
        filtered == SelectSeq(msgs, LAMBDA msg : KeepMsg(msg, cutoff))
    IN  IF msgs = <<>> THEN [raised |-> FALSE, history |-> history]
        ELSE IF CleanRaises(msgs) THEN [raised |-> TRUE, history |-> history]
        ELSE [raised |-> FALSE,
              history |-> [history EXCEPT ![group_id] = TruncateHistory(filtered)]]

\* AppendRecord putting the record first: .insert(0, record)
AppendRecordAtHead(history, group_id, rec) ==
    [g \in DOMAIN history \cup {group_id} |->
        IF g = group_id THEN <<rec>> \o Get(history, g) ELSE history[g]]

\* conversation_history.setdefault(group_id, []) then .append(record)
AppendRecord(history, group_id, rec) ==
    [g \in DOMAIN history \cup {group_id} |->
        IF g = group_id THEN Append(Get(history, g), rec) ELSE history[g]]

\* Window taking the wrong end: [:limit]
WindowOldest(history, group_id, limit) ==
    SubSeq(Get(history, group_id), 1, Min(limit, Len(Get(history, group_id))))

\* line 150: the records handed to the prompt
Window(history, group_id, limit) == SliceLast(Get(history, group_id), limit)

\* ------------------------------------------------------------------ files
Absent == [kind |-> "absent", members |-> {}]
Unreadable == [kind |-> "unreadable", members |-> {}]
Partial == [kind |-> "partial", members |-> {}]
Garbage == [kind |-> "garbage", members |-> {}]
JsonArray == [kind |-> "array", members |-> {}]

\* json.dump(history): one member per key, holding the key and its array
JsonDump(history) ==
    [kind |-> "object", members |-> {<<g, history[g]>> : g \in DOMAIN history}]

EmptyHistory == [g \in {} |-> <<>>]

\* load_history()
LoadHistory(f) ==
    IF f.kind = "absent" THEN EmptyHistory
    ELSE IF f.kind = "object"
    THEN [g \in {m[1] : m \in f.members} |->
            (CHOOSE m \in f.members : m[1] = g)[2]]
    ELSE EmptyHistory

\* ------------------------------------------------------- handler locals
NoResponse == [kind |-> "none", text |-> <<>>]

\* ev: the locals of handle_message, and a record of what the handler did:
\* before = the conversation's log when the event arrived, added = the
\* records it appended, steps = the operations it performed, in order,
\* sent = the text handed to reply_message, outcome = how the handler ended
NoEvent == [group_id |-> "", text |-> <<>>, phase |-> "none",
            before |-> <<>>, added |-> <<>>, steps |-> <<>>,
            query |-> <<>>, msgs |-> <<>>, now |-> 0,
            history_text |-> <<>>, today_history_text |-> <<>>,
            response |-> NoResponse, reply_text |-> <<>>,
            sent |-> <<>>, delivery |-> "none", outcome |-> "none"]

NoCall == [op |-> "none", group_id |-> "", now |-> 0, limit |-> 0,
           pre |-> <<>>, out |-> <<>>, raised |-> FALSE]

\* "@..." in text
HasMention(text) == \E i \in 1..Len(text) : text[i] = MENTION

\* what model.generate_content can do: a text, an empty text, an exception
Responses == {[kind |-> "text", text |-> <<"ok">>],
              [kind |-> "text", text |-> <<"a", "b", "c", "d">>],
              [kind |-> "text", text |-> <<>>],
              [kind |-> "error", text |-> <<>>]}

SORRY_EMPTY == <<"sorry">>
SORRY_ERROR == <<"sorry", "error">>

\* ReplyText without the fallbacks: whatever text the response carries
ReplyTextNoFallback(response) ==
    LET raw == response.text
    IN IF Len(raw) > MAX_REPLY_LENGTH THEN SubSeq(raw, 1, MAX_REPLY_LENGTH) ELSE raw

\* lines 264-272: the reply text for a response, cut to MAX_REPLY_LENGTH
ReplyText(response) ==
    LET raw == IF response.kind = "error" THEN SORRY_ERROR
               ELSE IF response.text = <<>> THEN SORRY_EMPTY
               ELSE response.text
    IN IF Len(raw) > MAX_REPLY_LENGTH THEN SubSeq(raw, 1, MAX_REPLY_LENGTH) ELSE raw

\* line 147: text.replace(MENTION, "").strip()
RECURSIVE Strip(_)
Strip(q) ==
    IF q = <<>> THEN q
    ELSE IF Head(q) = " " THEN Strip(Tail(q))
    ELSE IF q[Len(q)] = " " THEN Strip(SubSeq(q, 1, Len(q) - 1))
    ELSE q

Query(text) == Strip(SelectSeq(text, LAMBDA c : c # MENTION))

\* dt.date(): the clock counts days
DateOf(ts) == ts.t

\* lines 168-173: ts_str is the formatted date, or the raw string, or ""
TsStr(ts) ==
    IF ParsedKind(ts) # "None" THEN [k |-> "ymdhm", t |-> ts.t]
    ELSE IF ts.k = "bad" THEN ts
    ELSE [k |-> "empty", t |-> 0]

\* the f-string of lines 171 and 175: "[ts_str] user: message"
RenderLine(msg) ==
    [ts_str |-> TsStr(msg.timestamp), user |-> msg.user, message |-> msg.message]

\* HistoryLines appending only inside "if dt is not None"
HistoryLinesDated(msgs) ==
    LET dated == SelectSeq(msgs, LAMBDA msg : ParsedKind(msg.timestamp) # "None")
    IN [i \in 1..Len(dated) |-> RenderLine(dated[i])]

\* a text is the sequence of its lines ("\n".join)
HistoryLines(msgs) == [i \in 1..Len(msgs) |-> RenderLine(msgs[i])]

\* line 170: dt is not None and dt.date() == today_date
IsToday(msg, now) ==
    ParsedKind(msg.timestamp) # "None" /\ DateOf(msg.timestamp) = now

TodayLines(msgs, now) ==
    HistoryLines(SelectSeq(msgs, LAMBDA msg : IsToday(msg, now)))

\* line 178: the text used when today_lines is empty
NO_TODAY_TEXT == <<[ts_str |-> [k |-> "empty", t |-> 0], user |-> "",
                    message |-> <<"no conversation today">>]>>

\* TodayHistoryText without the sentinel: "\n".join(today_lines)
TodayHistoryTextNoSentinel(msgs, now) == TodayLines(msgs, now)

\* line 178: the joined today_lines, or the sentinel when there are none
TodayHistoryText(msgs, now) ==
    IF TodayLines(msgs, now) # <<>> THEN TodayLines(msgs, now) ELSE NO_TODAY_TEXT

\* -------------------------------------------- files found at start-up
OldRecord(ts) == Record(ts, "alice", <<"hi">>)

InitFiles ==
    {Absent, Unreadable, Garbage, JsonArray,
     JsonDump([g \in {"g1"} |-> <<OldRecord(BadTs), OldRecord(Isoformat(0))>>]),
     JsonDump([g \in {"g1"} |-> [i \in 1..(MAX_HISTORY_PER_GROUP + 1) |-> OldRecord(Isoformat(0))]]),
     JsonDump([g \in {"g1"} |-> <<OldRecord(AwareTs(0))>>]),
     JsonDump([g \in {"g1"} |-> <<NotADict>>])}

Init ==
    /\ file \in InitFiles
    /\ tmp_file = Absent
    /\ conversation_history = LoadHistory(file)
    /\ committed = LoadHistory(file)
    /\ clock = 0
    /\ pc = "idle"
    /\ ev = NoEvent
    /\ call = NoCall
    /\ nevents = 0
    /\ boot_empty = (LoadHistory(file) = EmptyHistory)
    /\ threads = <<>>
    /\ journal = <<>>

\* datetime.now() advances.  The handler reads the clock only when it
\* appends (at idle and at dispatch); time passing elsewhere is folded into these.
Tick ==
    /\ pc \in {"idle", "dispatch"}
    /\ clock < MaxTime
    /\ clock' = clock + 1
    /\ UNCHANGED <<conversation_history, file, tmp_file, pc, ev, call, committed, nevents, boot_empty, threads, journal>>

\* handle_message, lines 108-139: append the inbound record and evict
HandleMessage(group_id, user_name, text) ==
    LET rec == Record(Isoformat(clock), user_name, text)
        appended == AppendRecord(conversation_history, group_id, rec)
        cleaned == CleanOldHistory(appended, group_id, clock)
    IN  /\ pc = "idle"
        /\ nevents < MaxEvents
        /\ nevents' = nevents + 1
        /\ conversation_history' = cleaned.history
        /\ call' = [op |-> "evict", group_id |-> group_id, now |-> clock, limit |-> 0,
                    pre |-> appended[group_id], out |-> cleaned.history[group_id],
                    raised |-> cleaned.raised]
        /\ pc' = IF cleaned.raised THEN "return" ELSE "save_open"
        /\ ev' = [NoEvent EXCEPT !.group_id = group_id, !.text = text,
                                 !.phase = "inbound",
                                 !.before = Get(conversation_history, group_id),
                                 !.added = <<rec>>,
                                 !.steps = <<"append", "evict">>,
                                 !.outcome = IF cleaned.raised THEN "raised" ELSE "none"]
        /\ UNCHANGED <<file, tmp_file, clock, committed, boot_empty, threads, journal>>

\* SaveOpen without the temporary file: open(HISTORY_FILE, "w")
SaveOpenInPlace ==
    /\ pc = "save_open"
    /\ file' = Partial
    /\ pc' = "save_dump"
    /\ UNCHANGED <<conversation_history, tmp_file, clock, ev, call, committed, nevents, boot_empty, threads, journal>>

\* save_history, line 59: open(tmp_file, "w") truncates the temporary file
SaveOpen ==
    /\ pc = "save_open"
    /\ tmp_file' = Partial
    /\ pc' = "save_dump"
    /\ UNCHANGED <<conversation_history, file, clock, ev, call, committed, nevents, boot_empty, threads, journal>>

\* SaveDump that leaves the with block before the text is flushed
SaveDumpUnflushed ==
    /\ pc = "save_dump"
    /\ tmp_file' = Partial
    /\ pc' = "save_replace"
    /\ UNCHANGED <<conversation_history, file, clock, ev, call, committed, nevents, boot_empty, threads, journal>>

\* save_history, line 60: json.dump completes and the file is closed
SaveDump ==
    /\ pc = "save_dump"
    /\ tmp_file' = JsonDump(conversation_history)
    /\ pc' = "save_replace"
    /\ UNCHANGED <<conversation_history, file, clock, ev, call, committed, nevents, boot_empty, threads, journal>>

\* save_history, line 61: os.replace(tmp_file, HISTORY_FILE)
SaveReplace ==
    /\ pc = "save_replace"
    /\ file' = tmp_file
    /\ tmp_file' = Absent
    /\ committed' = conversation_history
    /\ pc' = IF ev.phase = "inbound" THEN "dispatch" ELSE "reply"
    /\ ev' = [ev EXCEPT !.steps = Append(@, "save")]
    /\ UNCHANGED <<conversation_history, clock, call, nevents, boot_empty, threads, journal>>

\* lines 143-144: no mention, the handler returns
DispatchIgnore ==
    /\ pc = "dispatch"
    /\ ~HasMention(ev.text)
    /\ pc' = "return"
    /\ ev' = [ev EXCEPT !.outcome = "returned"]
    /\ UNCHANGED <<conversation_history, file, tmp_file, clock, call, committed, nevents, boot_empty, threads, journal>>

\* lines 147-282: build the window, generate, append the reply and evict
DispatchMention(response) ==
    LET msgs == Window(conversation_history, ev.group_id, MAX_PROMPT_MESSAGES)
        reply_text == ReplyText(response)
        rec == Record(Isoformat(clock), BOT_NAME, reply_text)
        appended == AppendRecord(conversation_history, ev.group_id, rec)
        cleaned == CleanOldHistory(appended, ev.group_id, clock)
    IN  /\ pc = "dispatch"
        /\ HasMention(ev.text)
        /\ conversation_history' = cleaned.history
        /\ call' = [op |-> "evict", group_id |-> ev.group_id, now |-> clock, limit |-> 0,
                    pre |-> appended[ev.group_id], out |-> cleaned.history[ev.group_id],
                    raised |-> cleaned.raised]
        /\ pc' = IF cleaned.raised THEN "return" ELSE "save_open"
        /\ ev' = [ev EXCEPT !.phase = "reply",
                            !.query = Query(ev.text),
                            !.msgs = msgs,
                            !.now = clock,
                            !.history_text = HistoryLines(msgs),
                            !.today_history_text = TodayHistoryText(msgs, clock),
                            !.response = response,
                            !.reply_text = reply_text,
                            !.added = Append(@, rec),
                            !.steps = @ \o <<"window", "generate", "append", "evict">>,
                            !.outcome = IF cleaned.raised THEN "raised" ELSE "none"]
        /\ UNCHANGED <<file, tmp_file, clock, committed, nevents, boot_empty, threads, journal>>

\* ReplyMessage without the except clause: LineBotApiError leaves the handler
ReplyMessageUncaught(delivered) ==
    /\ pc = "reply"
    /\ pc' = "return"
    /\ ev' = [ev EXCEPT !.sent = ev.reply_text,
                        !.delivery = IF delivered THEN "ok" ELSE "failed",
                        !.steps = Append(@, "reply"),
                        !.outcome = IF delivered THEN "returned" ELSE "raised"]
    /\ UNCHANGED <<conversation_history, file, tmp_file, clock, call, committed, nevents, boot_empty, threads, journal>>

\* lines 285-292: reply_message succeeds or raises LineBotApiError (swallowed)
ReplyMessage(delivered) ==
    /\ pc = "reply"
    /\ pc' = "return"
    /\ ev' = [ev EXCEPT !.sent = ev.reply_text,
                        !.delivery = IF delivered THEN "ok" ELSE "failed",
                        !.steps = Append(@, "reply"),
                        !.outcome = "returned"]
    /\ UNCHANGED <<conversation_history, file, tmp_file, clock, call, committed, nevents, boot_empty, threads, journal>>

\* the handler has returned or raised: callback answers (lines 99-104)
Return ==
    /\ pc = "return"
    /\ pc' = "idle"
    /\ ev' = NoEvent
    /\ call' = NoCall
    /\ UNCHANGED <<conversation_history, file, tmp_file, clock, committed, nevents, boot_empty, threads, journal>>

\* the process dies at any point and is started again: line 90 loads the file
Crash ==
    /\ conversation_history' = LoadHistory(file)
    /\ committed' = LoadHistory(file)
    /\ pc' = "idle"
    /\ ev' = NoEvent
    /\ call' = NoCall
    /\ UNCHANGED <<file, tmp_file, clock, nevents, boot_empty, threads, journal>>

Next ==
    \/ Tick
    \/ \E s \in Sources, t \in Texts : HandleMessage(s.group_id, s.user_name, t)
    \/ SaveOpen
    \/ SaveDump
    \/ SaveReplace
    \/ DispatchIgnore
    \/ \E r \in Responses : DispatchMention(r)
    \/ \E d \in BOOLEAN : ReplyMessage(d)
    \/ Return
    \/ Crash

Spec == Init /\ [][Next]_vars

\* ------------------------------------------------------------------------
\* The store operations on their own: clean_old_history and the window slice
\* applied to any store a file can hold, at any reading of the clock.

StoreTimestamps == {Isoformat(0), Isoformat(1), BadTs, NoTs, AwareTs(0)}
StoreRecords == {OldRecord(ts) : ts \in StoreTimestamps}

RECURSIVE SeqsUpTo(_, _)
SeqsUpTo(S, n) ==
    IF n = 0 THEN {<<>>}
    ELSE LET shorter == SeqsUpTo(S, n - 1)
         IN shorter \cup {Append(q, x) : q \in {r \in shorter : Len(r) = n - 1}, x \in S}

StoreLogs == SeqsUpTo(StoreRecords, MaxLog)
Limits == (0 - 1)..MaxLimit

InitStore ==
    /\ conversation_history \in {[g \in {"g1"} |-> log] : log \in StoreLogs}
    /\ clock \in 0..MaxTime
    /\ file = Absent
    /\ tmp_file = Absent
    /\ committed = EmptyHistory
    /\ pc = "idle"
    /\ ev = NoEvent
    /\ call = NoCall
    /\ nevents = 0
    /\ boot_empty = FALSE
    /\ threads = <<>>
    /\ journal = <<>>

\* clean_old_history(conversation_history, group_id)
EvictOp(group_id) ==
    LET cleaned == CleanOldHistory(conversation_history, group_id, clock)
    IN  /\ conversation_history' = cleaned.history
        /\ call' = [op |-> "evict", group_id |-> group_id, now |-> clock, limit |-> 0,
                    pre |-> Get(conversation_history, group_id),
                    out |-> Get(cleaned.history, group_id),
                    raised |-> cleaned.raised]
        /\ ev' = NoEvent
        /\ UNCHANGED <<file, tmp_file, clock, pc, committed, nevents, boot_empty, threads, journal>>

\* conversation_history.get(group_id, [])[-limit:]
WindowOp(group_id, limit) ==
    /\ call' = [op |-> "window", group_id |-> group_id, now |-> clock, limit |-> limit,
                pre |-> Get(conversation_history, group_id),
                out |-> Window(conversation_history, group_id, limit),
                raised |-> FALSE]
    /\ ev' = NoEvent
    /\ UNCHANGED <<conversation_history, file, tmp_file, clock, pc, committed, nevents, boot_empty, threads, journal>>

\* lines 153-178 on the window just taken: render history_text and
\* today_history_text at the current reading of the clock
BuildOp ==
    /\ call.op = "window"
    /\ ev.phase = "none"
    /\ ev' = [NoEvent EXCEPT !.group_id = call.group_id,
                             !.phase = "build",
                             !.msgs = call.out,
                             !.now = clock,
                             !.history_text = HistoryLines(call.out),
                             !.today_history_text = TodayHistoryText(call.out, clock)]
    /\ UNCHANGED <<conversation_history, file, tmp_file, clock, pc, call, committed, nevents, boot_empty, threads, journal>>

NextStore ==
    \/ \E g \in Groups : EvictOp(g)
    \/ \E g \in Groups, n \in Limits : WindowOp(g, n)
    \/ BuildOp

SpecStore == InitStore /\ [][NextStore]_vars

\* ------------------------------------------------------------------------
\* Two webhook requests handled at the same time.  app.run (line 303) serves
\* each request on its own thread and handle_message takes no lock, so the
\* statements of two handlers interleave.  Each thread handles one message
\* without the mention token: append, clean_old_history, save_history.

Threads == {1, 2}

\* the text of the message thread t handles
ThreadText(t) == IF t = 1 THEN <<"hi">> ELSE <<"plan">>

\* a thread's position and locals: filtered is the local list of
\* clean_old_history, fd the file the descriptor opened at line 59 refers to
IdleThread == [pc |-> "start", group_id |-> "", filtered |-> <<>>, fd |-> "none"]

AllDone == \A t \in Threads : threads[t].pc \in {"done", "raised"}

InitThreads ==
    /\ file \in {Absent, JsonDump([g \in {"g1"} |-> <<OldRecord(Isoformat(0))>>])}
    /\ tmp_file = Absent
    /\ conversation_history = LoadHistory(file)
    /\ committed = LoadHistory(file)
    /\ clock \in 0..MaxTime
    /\ pc = "idle"
    /\ ev = NoEvent
    /\ call = NoCall
    /\ nevents = 0
    /\ boot_empty = (LoadHistory(file) = EmptyHistory)
    /\ threads = [t \in Threads |-> IdleThread]
    /\ journal = [g \in Groups |-> <<>>]

\* lines 131-138 on thread t
TAppend(t, group_id, user_name) ==
    LET rec == Record(Isoformat(clock), user_name, ThreadText(t))
    IN  /\ threads[t].pc = "start"
        /\ conversation_history' = AppendRecord(conversation_history, group_id, rec)
        /\ journal' = [journal EXCEPT ![group_id] = Append(@, rec)]
        /\ threads' = [threads EXCEPT ![t].pc = "clean", ![t].group_id = group_id]
        /\ UNCHANGED <<file, tmp_file, clock, pc, ev, call, committed, nevents, boot_empty>>

\* lines 66-84 on thread t: the loop and the slice build the local list
\* `filtered` from the log as it is now
TCleanLoop(t) ==
    LET g == threads[t].group_id
        cleaned == CleanOldHistory(conversation_history, g, clock)
    IN  /\ threads[t].pc = "clean"
        /\ threads' = [threads EXCEPT
              ![t].pc = IF cleaned.raised THEN "raised"
                        ELSE IF Get(conversation_history, g) = <<>> THEN "save_open"
                        ELSE "assign",
              ![t].filtered = Get(cleaned.history, g)]
        /\ UNCHANGED <<conversation_history, file, tmp_file, clock, pc, ev, call, committed, nevents, boot_empty, journal>>

\* line 86 on thread t: history[group_id] = filtered
TCleanAssign(t) ==
    /\ threads[t].pc = "assign"
    /\ conversation_history' =
          [conversation_history EXCEPT ![threads[t].group_id] = threads[t].filtered]
    /\ threads' = [threads EXCEPT ![t].pc = "save_open", ![t].filtered = <<>>]
    /\ UNCHANGED <<file, tmp_file, clock, pc, ev, call, committed, nevents, boot_empty, journal>>

\* line 59 on thread t: open(tmp_file, "w") creates the temporary file or
\* truncates the one that is there; every thread uses the same path
TSaveOpen(t) ==
    /\ threads[t].pc = "save_open"
    /\ tmp_file' = Partial
    /\ threads' = [threads EXCEPT ![t].pc = "save_dump", ![t].fd = "tmp"]
    /\ UNCHANGED <<conversation_history, file, clock, pc, ev, call, committed, nevents, boot_empty, journal>>

\* line 60 on thread t: json.dump writes through the descriptor and the file
\* is closed.  The descriptor follows the file it opened: after another
\* thread's os.replace that file is the canonical one.
TSaveDump(t) ==
    LET dump == JsonDump(conversation_history)
    IN  /\ threads[t].pc = "save_dump"
        /\ \/ /\ threads[t].fd = "tmp"
              /\ tmp_file' = dump
              /\ file' = file
           \/ /\ threads[t].fd = "canon"
              /\ file' = dump
              /\ tmp_file' = tmp_file
        /\ threads' = [threads EXCEPT ![t].pc = "save_replace", ![t].fd = "none"]
        /\ UNCHANGED <<conversation_history, clock, pc, ev, call, committed, nevents, boot_empty, journal>>

\* line 61 on thread t: os.replace(tmp_file, HISTORY_FILE); it raises
\* FileNotFoundError when another thread has already moved the temporary file
TSaveReplace(t) ==
    /\ threads[t].pc = "save_replace"
    /\ IF tmp_file = Absent
       THEN /\ threads' = [threads EXCEPT ![t].pc = "raised"]
            /\ UNCHANGED <<file, tmp_file, committed>>
       ELSE /\ file' = tmp_file
            /\ tmp_file' = Absent
            /\ committed' = LoadHistory(tmp_file)
            /\ threads' = [u \in Threads |->
                  IF u = t THEN [threads[u] EXCEPT !.pc = "done"]
                  ELSE IF threads[u].fd = "tmp" THEN [threads[u] EXCEPT !.fd = "canon"]
                  ELSE threads[u]]
    /\ UNCHANGED <<conversation_history, clock, pc, ev, call, nevents, boot_empty, journal>>

NextThreads ==
    \/ \E t \in Threads, s \in Sources : TAppend(t, s.group_id, s.user_name)
    \/ \E t \in Threads : TCleanLoop(t)
    \/ \E t \in Threads : TCleanAssign(t)
    \/ \E t \in Threads : TSaveOpen(t)
    \/ \E t \in Threads : TSaveDump(t)
    \/ \E t \in Threads : TSaveReplace(t)

SpecThreads == InitThreads /\ [][NextThreads]_vars

\* ------------------------------------------------------------------------
\* Properties.  call holds the last store operation: the log it started from
\* (pre), the log or window it produced (out), the clock reading it used (now).

\* the record is dated and older than the retention window at `now`
Expired(rec, now) ==
    rec.timestamp.k = "iso" /\ now - rec.timestamp.t > MAX_HISTORY_DAYS

\* the record is dated and within the retention window at `now` (boundary included)
Recent(rec, now) ==
    rec.timestamp.k = "iso" /\ now - rec.timestamp.t <= MAX_HISTORY_DAYS

\* the record has no timestamp, or one that does not parse
NoTimestamp(rec) == rec.timestamp.k \in {"bad", "none"}

\* how many records after position i outlive the age rule
SurvivorsAfter(log, i, now) ==
    Cardinality({k \in (i + 1)..Len(log) : ~Expired(log[k], now)})

IsSuffixOf(a, b) ==
    Len(a) <= Len(b) /\ a = SubSeq(b, Len(b) - Len(a) + 1, Len(b))

\* clean_old_history was called and returned
EvictReturned == call.op = "evict" /\ ~call.raised

\* C1: starting from an empty store, whenever save_history is entered every
\* log holds at most MAX_HISTORY_PER_GROUP records; the records the eviction
\* just dropped are the oldest (the saved log is a suffix of the appended log),
\* and when nothing was age-expired and the append went over the limit the log
\* keeps exactly its newest MAX_HISTORY_PER_GROUP records.
C1_BoundedAtSave ==
    (boot_empty /\ pc = "save_open") =>
        /\ \A g \in DOMAIN conversation_history :
              Len(conversation_history[g]) <= MAX_HISTORY_PER_GROUP
        /\ call.op = "evict"
        /\ conversation_history[call.group_id] = call.out
        /\ IsSuffixOf(call.out, call.pre)
        /\ ( /\ Len(call.pre) > MAX_HISTORY_PER_GROUP
             /\ \A i \in 1..Len(call.pre) : ~Expired(call.pre[i], call.now) )
           => Len(call.out) = MAX_HISTORY_PER_GROUP

\* C1 witness: an append took a log of an initially empty store over the limit
C1_Overflowed ==
    /\ boot_empty
    /\ pc = "save_open"
    /\ Len(call.pre) = MAX_HISTORY_PER_GROUP + 1
    /\ Len(call.out) = MAX_HISTORY_PER_GROUP

\* C2: for a limit n > 0 the window is exactly the last min(n, length) records
\* of the log, in the log's order.
C2_WindowLastN ==
    (call.op = "window" /\ call.limit > 0) =>
        LET n == Min(call.limit, Len(call.pre))
        IN  /\ Len(call.out) = n
            /\ \A i \in 1..n : call.out[i] = call.pre[Len(call.pre) - n + i]

\* C2 witness: a window shorter than a log whose records differ
C2_WindowCut ==
    /\ call.op = "window"
    /\ call.limit >= 2
    /\ Len(call.pre) > call.limit
    /\ call.out[1] # call.out[2]
    /\ call.pre[1] # call.out[1]

\* C3: a window of limit <= 0 is empty, whatever the log.
C3_WindowNonPositiveEmpty ==
    (call.op = "window" /\ call.limit <= 0) => call.out = <<>>

\* C4: when clean_old_history returns, no dated record older than the
\* retention window is left, and every dated record within the window (the
\* boundary included) is still there unless at least MAX_HISTORY_PER_GROUP
\* surviving records follow it (the size rule removed it).
C4_AgeEviction ==
    EvictReturned =>
        /\ \A j \in 1..Len(call.out) : ~Expired(call.out[j], call.now)
        /\ \A i \in 1..Len(call.pre) :
              Recent(call.pre[i], call.now) =>
                  LET later == SurvivorsAfter(call.pre, i, call.now)
                  IN  later < MAX_HISTORY_PER_GROUP =>
                        /\ later < Len(call.out)
                        /\ call.out[Len(call.out) - later] = call.pre[i]

\* C4 witness: the age rule alone removed an expired record and kept one that
\* is exactly MAX_HISTORY_DAYS old
C4_ExpiredRemoved ==
    /\ EvictReturned
    /\ Len(call.pre) <= MAX_HISTORY_PER_GROUP
    /\ Len(call.out) < Len(call.pre)
    /\ \E i \in 1..Len(call.pre) : Expired(call.pre[i], call.now)
    /\ \E j \in 1..Len(call.out) :
          /\ call.out[j].timestamp.k = "iso"
          /\ call.now - call.out[j].timestamp.t = MAX_HISTORY_DAYS

\* C5 as claimed: every record without a readable timestamp that is in the log
\* before clean_old_history is in the log after it.
C5_NoTimestampAlwaysSurvives ==
    call.op = "evict" =>
        SelectSeq(call.out, NoTimestamp) = SelectSeq(call.pre, NoTimestamp)

\* C5 amended: a record without a readable timestamp is never removed by the
\* age rule; it is in the log after clean_old_history unless at least
\* MAX_HISTORY_PER_GROUP surviving records follow it (the size rule removed it).
C5_NoTimestampSurvivesAge ==
    call.op = "evict" =>
        /\ call.raised => call.out = call.pre
        /\ ~call.raised =>
              \A i \in 1..Len(call.pre) :
                  NoTimestamp(call.pre[i]) =>
                      LET later == SurvivorsAfter(call.pre, i, call.now)
                      IN  later < MAX_HISTORY_PER_GROUP =>
                            /\ later < Len(call.out)
                            /\ call.out[Len(call.out) - later] = call.pre[i]
        /\ ( /\ ~call.raised
             /\ SurvivorsAfter(call.pre, 0, call.now) <= MAX_HISTORY_PER_GROUP )
           => SelectSeq(call.out, NoTimestamp) = SelectSeq(call.pre, NoTimestamp)

\* C5 witness: an eviction removed an expired record next to an undated one,
\* which stayed
C5_UndatedKept ==
    /\ EvictReturned
    /\ Len(call.out) < Len(call.pre)
    /\ \E i \in 1..Len(call.pre) : Expired(call.pre[i], call.now)
    /\ \E i \in 1..Len(call.pre) : NoTimestamp(call.pre[i])
    /\ \E j \in 1..Len(call.out) : NoTimestamp(call.out[j])

\* C6: the age rule runs before the size rule: the result is the newest
\* MAX_HISTORY_PER_GROUP of the records that outlive the age rule, in order; a
\* log of MAX_HISTORY_PER_GROUP + 1 records all within the window loses
\* exactly its oldest record.
C6_AgeThenSize ==
    EvictReturned =>
        LET kept == {i \in 1..Len(call.pre) : ~Expired(call.pre[i], call.now)}
            n == Min(Cardinality(kept), MAX_HISTORY_PER_GROUP)
        IN  /\ Len(call.out) = n
            /\ \A j \in 1..n :
                  \E i \in kept :
                      /\ Cardinality({k \in kept : k >= i}) = n - j + 1
                      /\ call.out[j] = call.pre[i]
            /\ ( /\ Len(call.pre) = MAX_HISTORY_PER_GROUP + 1
                 /\ \A i \in 1..Len(call.pre) : Recent(call.pre[i], call.now) )
               => call.out = Tail(call.pre)

\* C6 witness: an oversized log mixing expired and recent records, on which
\* truncating first and filtering second would have given another result
C6_OrderMatters ==
    /\ EvictReturned
    /\ Len(call.pre) > MAX_HISTORY_PER_GROUP
    /\ \E i \in 1..Len(call.pre) : Expired(call.pre[i], call.now)
    /\ call.out # SelectSeq(SliceLast(call.pre, MAX_HISTORY_PER_GROUP),
                            LAMBDA msg : ~Expired(msg, call.now))

\* C7: clean_old_history run again on its own result, for the same
\* conversation at the same clock reading, changes nothing.
C7_EvictIdempotent ==
    call.op = "evict" =>
        LET again == CleanOldHistory(conversation_history, call.group_id, call.now)
        IN  /\ again.history = conversation_history
            /\ again.raised = call.raised

\* C7 witness: an eviction that removed an expired record and left a full log
C7_EvictChanged ==
    /\ EvictReturned
    /\ Len(call.out) = MAX_HISTORY_PER_GROUP
    /\ Len(call.out) < Len(call.pre)
    /\ \E i \in 1..Len(call.pre) : Expired(call.pre[i], call.now)

C9_CrashSafe ==
    [][ /\ (file' # file) => (pc = "save_replace" /\ file' = JsonDump(conversation_history))
        /\ file'.kind # "partial"
        /\ Crash => conversation_history' = committed ]_vars

\* C9 witness: the process crashed in the middle of a save (the temporary file
\* is left behind, partial or complete) and came back with the prior state
C9_CrashedMidSave ==
    /\ pc = "idle"
    /\ tmp_file.kind \in {"partial", "object"}
    /\ tmp_file # file
    /\ file.kind = "object"
    /\ conversation_history = LoadHistory(file)
    /\ nevents > 0

\* the file decodes as a mapping from conversation id to a sequence of records
ExpectedStructure(f) ==
    /\ f.kind = "object"
    /\ \A m \in f.members : \A i \in 1..Len(m[2]) : m[2][i].ty = "dict"

\* C10: whenever the persisted file is absent, unreadable or does not decode
\* as the expected structure, the state load_history returned is the empty
\* state, and handling an event on top of it does not fail.
C10_LoadRecovers ==
    ~ExpectedStructure(file) =>
        /\ nevents = 0 => conversation_history = EmptyHistory
        /\ ~(call.op = "evict" /\ call.raised)

\* C11: whenever no event is being handled, load_history of the file gives the
\* in-memory state (every append was followed by an eviction and a save).
C11_WriteThrough ==
    pc = "idle" => LoadHistory(file) = conversation_history

\* the handler is past the generation call of a mention event
Generated == ev.phase = "reply"

\* generate_content raised, or returned a response without text
GenerationFailed ==
    ev.response.kind = "error" \/ (ev.response.kind = "text" /\ ev.response.text = <<>>)

\* the first n symbols of a text
Prefix(text, n) == SubSeq(text, 1, Min(n, Len(text)))

\* the reply record the handler appended
ReplyRecord == Record(Isoformat(ev.now), BOT_NAME, ev.reply_text)

\* C14: when generation raises or returns an empty response the reply text is
\* the apologetic fallback; the handler does not fail; exactly one reply record
\* carrying that text is appended at the tail of the conversation's log; once
\* the save is done the file holds it; and reply_message is given the same text.
C14_GenerationFallback ==
    (Generated /\ GenerationFailed) =>
        LET fallback == IF ev.response.kind = "error" THEN SORRY_ERROR ELSE SORRY_EMPTY
            log == Get(conversation_history, ev.group_id)
            saved == Get(LoadHistory(file), ev.group_id)
        IN  /\ ev.reply_text = Prefix(fallback, MAX_REPLY_LENGTH)
            /\ ev.reply_text # <<>>
            /\ ev.outcome # "raised"
            /\ Len(ev.added) = 2
            /\ ev.added[2] = ReplyRecord
            /\ log # <<>> /\ log[Len(log)] = ReplyRecord
            /\ ev.added[1].user # BOT_NAME
            /\ (Len(log) >= 2 /\ ~Expired(ev.added[1], ev.now)) =>
                  log[Len(log) - 1] = ev.added[1]
            /\ pc \in {"reply", "return"} => (saved # <<>> /\ saved[Len(saved)] = ReplyRecord)
            /\ pc = "return" =>
                  /\ ev.sent = ev.reply_text
                  /\ ev.steps[Len(ev.steps)] = "reply"

\* C14 witness: generation raised, the fallback was saved and then delivered
C14_FallbackDelivered ==
    /\ pc = "return"
    /\ ev.response.kind = "error"
    /\ ev.sent = SORRY_ERROR
    /\ ev.delivery = "ok"
    /\ LET saved == Get(LoadHistory(file), ev.group_id)
       IN saved # <<>> /\ saved[Len(saved)].message = SORRY_ERROR

\* the operations of a handler that handles a mention, in the order of the code
MentionSteps ==
    <<"append", "evict", "save", "window", "generate", "append", "evict", "save", "reply">>

\* q is text with every mention token removed and the surrounding whitespace trimmed
IsQueryOf(q, text) ==
    LET rest == SelectSeq(text, LAMBDA c : c # MENTION)
    IN  /\ \E i \in 0..Len(rest) : \E j \in i..Len(rest) :
              /\ q = SubSeq(rest, i + 1, j)
              /\ \A k \in 1..i : rest[k] = " "
              /\ \A k \in (j + 1)..Len(rest) : rest[k] = " "
        /\ q # <<>> => (q[1] # " " /\ q[Len(q)] # " ")

\* C15: when the handler of an event ends, an event without the mention token
\* has caused exactly one append, one eviction and one save and nothing else;
\* an event with the token has also caused one window build, one generation
\* call, one reply record appended after the inbound record, and its query is
\* the text without the tokens, trimmed.
C15_CommandIffMention ==
    pc = "return" =>
        IF HasMention(ev.text)
        THEN /\ ev.steps = MentionSteps
             /\ Len(ev.added) = 2
             /\ ev.added[2].user = BOT_NAME
             /\ ev.response # NoResponse
             /\ IsQueryOf(ev.query, ev.text)
        ELSE /\ ev.steps = <<"append", "evict", "save">>
             /\ Len(ev.added) = 1
             /\ ev.response = NoResponse
             /\ ev.msgs = <<>>
             /\ ev.delivery = "none"

\* history_text and today_history_text have been built from ev.msgs at ev.now
Built == ev.phase \in {"build", "reply"}

\* the positions of the window whose timestamp parses to the date of `now`
TodayPositions(msgs, now) ==
    {i \in 1..Len(msgs) :
        msgs[i].timestamp.k \in {"iso", "aware"} /\ msgs[i].timestamp.t = now}

\* C16: today_history_text is the rendering of exactly the window records
\* whose timestamp falls on the date of now, in the window's order; when there
\* is none it is the fixed sentinel text, and it is never the empty text.
C16_TodayWindowText ==
    Built =>
        LET today == TodayPositions(ev.msgs, ev.now)
            n == Cardinality(today)
            text == ev.today_history_text
        IN  /\ text # <<>>
            /\ n = 0 => text = NO_TODAY_TEXT
            /\ n > 0 =>
                  /\ Len(text) = n
                  /\ \A j \in 1..n :
                        \E i \in today :
                            /\ Cardinality({k \in today : k <= i}) = j
                            /\ text[j] = RenderLine(ev.msgs[i])

\* C16 witness: a window in which today's records are a proper, non-empty
\* part, lying between records of another day or of no readable date
C16_TodayPicked ==
    /\ Built
    /\ Len(ev.msgs) >= 3
    /\ LET today == TodayPositions(ev.msgs, ev.now)
       IN  /\ today # {}
           /\ 1 \notin today
           /\ Len(ev.msgs) \notin today
    /\ Len(ev.today_history_text) < Len(ev.msgs)

\* a is b with some of its elements left out, the rest in b's order
RECURSIVE IsSubseq(_, _)
IsSubseq(a, b) ==
    IF a = <<>> THEN TRUE
    ELSE IF b = <<>> THEN FALSE
    ELSE IF Head(a) = Head(b) THEN IsSubseq(Tail(a), Tail(b))
    ELSE IsSubseq(a, Tail(b))

\* an event is being handled by handle_message
Handling == ev.phase \in {"inbound", "reply"}

\* C17: while and after an event is handled, the log of its conversation is an
\* order-preserving subsequence of the log before the event, followed by the
\* records the event appended, newest last and unchanged; the newest appended
\* record is always there, and an appended record is missing only if the age
\* rule expired it or the log was over MAX_HISTORY_PER_GROUP.
C17_NoEditNoReorder ==
    Handling =>
        LET log == Get(conversation_history, ev.group_id)
            added == ev.added
        IN  \E k \in 1..Len(added) :
                /\ k <= Len(log)
                /\ SubSeq(log, Len(log) - k + 1, Len(log))
                     = SubSeq(added, Len(added) - k + 1, Len(added))
                /\ IsSubseq(SubSeq(log, 1, Len(log) - k), ev.before)
                /\ k < Len(added) =>
                      \/ Expired(added[1], call.now)
                      \/ Len(call.pre) > MAX_HISTORY_PER_GROUP

\* C17 witness: a mention event whose eviction removed a record from the
\* middle of the log: the older record before it stays, the two appended follow
C17_MiddleEvicted ==
    /\ pc = "return"
    /\ Len(ev.before) = 2
    /\ Len(ev.added) = 2
    /\ Get(conversation_history, ev.group_id) = <<ev.before[1]>> \o ev.added
    /\ ev.before[1] # ev.before[2]

\* C18: a step of the handler of an event for conversation A (append,
\* eviction, window build, reply append) leaves the log of every other
\* conversation as it was and creates no key but A; the window it builds is
\* the tail of A's own log.
C18_Isolation ==
    [][ (ev'.phase \in {"inbound", "reply"}) =>
           /\ \A g \in DOMAIN conversation_history :
                 g # ev'.group_id =>
                    /\ g \in DOMAIN conversation_history'
                    /\ conversation_history'[g] = conversation_history[g]
           /\ DOMAIN conversation_history' \subseteq DOMAIN conversation_history \cup {ev'.group_id}
           /\ (ev.phase = "inbound" /\ ev'.phase = "reply") =>
                 /\ ev'.msgs # <<>>
                 /\ IsSuffixOf(ev'.msgs, Get(conversation_history, ev'.group_id))
                 /\ \A i \in 1..Len(ev'.msgs) :
                       \E j \in 1..Len(ev.before \o ev.added) :
                           ev'.msgs[i] = (ev.before \o ev.added)[j] ]_vars

\* C18 witness: a mention event of g2 was handled while the log of g1 held
\* more than MAX_HISTORY_PER_GROUP records, which an eviction of g1 would cut
C18_OtherLogUntouched ==
    /\ pc = "return"
    /\ ev.group_id = "g2"
    /\ Len(ev.added) = 2
    /\ ev.msgs # <<>>
    /\ Len(Get(conversation_history, "g1")) > MAX_HISTORY_PER_GROUP
    /\ Get(LoadHistory(file), "g1") = Get(conversation_history, "g1")

\* C19: history_text has one line per window record, in the window's order,
\* each carrying the record's whole user and message and its timestamp
\* (formatted if it parses, raw otherwise); the reply text is the response's
\* text cut to MAX_REPLY_LENGTH, and that one text is in the appended reply
\* record and is what reply_message is given.
C19_RenderAllCutReplyOnly ==
    /\ Built =>
          /\ Len(ev.history_text) = Len(ev.msgs)
          /\ \A i \in 1..Len(ev.msgs) :
                LET line == ev.history_text[i]
                    ts == ev.msgs[i].timestamp
                IN  /\ line.user = ev.msgs[i].user
                    /\ line.message = ev.msgs[i].message
                    /\ ts.k \in {"iso", "aware"} => line.ts_str = [k |-> "ymdhm", t |-> ts.t]
                    /\ ts.k = "bad" => line.ts_str = ts
                    /\ ts.k = "none" => line.ts_str.k = "empty"
    /\ Generated =>
          /\ Len(ev.reply_text) <= MAX_REPLY_LENGTH
          /\ ev.response.text # <<>> =>
                ev.reply_text = Prefix(ev.response.text, MAX_REPLY_LENGTH)
          /\ ev.added[Len(ev.added)].message = ev.reply_text
          /\ LET log == Get(conversation_history, ev.group_id)
             IN log[Len(log)].message = ev.reply_text
          /\ pc = "return" => ev.sent = ev.reply_text

\* C19 witness: the window holds a record with an unparsable timestamp and a
\* message longer than MAX_REPLY_LENGTH, both rendered whole, and the generated
\* text was cut before it was appended and sent
C19_LongReplyCut ==
    /\ pc = "return"
    /\ Len(ev.response.text) > MAX_REPLY_LENGTH
    /\ Len(ev.sent) = MAX_REPLY_LENGTH
    /\ Len(ev.msgs) = MAX_PROMPT_MESSAGES
    /\ \E i \in 1..Len(ev.msgs) : ev.msgs[i].timestamp.k = "bad"
    /\ \E i \in 1..Len(ev.history_text) : Len(ev.history_text[i].message) > MAX_REPLY_LENGTH

InLog(rec, log) == \E i \in 1..Len(log) : log[i] = rec

\* C12: when all concurrent handlers have finished, every record an event
\* appended is in the in-memory log of its conversation, unless the log went
\* over MAX_HISTORY_PER_GROUP (a record stamped with the current clock reading
\* is never expired).
C12_NoLostAppend ==
    (AllDone /\ boot_empty) =>
        \A g \in DOMAIN journal :
            Len(journal[g]) <= MAX_HISTORY_PER_GROUP =>
                \A i \in 1..Len(journal[g]) :
                    InLog(journal[g][i], Get(conversation_history, g))

\* C13: with concurrent saves the canonical file is always absent or a
\* complete encoding of a store, and once all handlers have finished it
\* decodes to the in-memory state.
C13_ConcurrentSaveAtomic ==
    /\ file.kind \in {"absent", "object"}
    /\ AllDone => LoadHistory(file) = conversation_history

====
